---- MODULE Spec2Model ----
(***************************************************************************)
(* Converge-AI: the persisted conversation-session store (src/database.py) *)
(* and the reminder scheduler (src/scheduler/tasks.py, started by the      *)
(* lifespan of src/main.py).                                               *)
(*                                                                         *)
(* The specifications of the module:                                       *)
(*   SessionSpec  the session resolver (get_or_create_session,             *)
(*              clear_session)                                             *)
(*   LedgerSpec the message ledger (add_message, get_session_history)      *)
(*   ConcurrentSpec  calls of get_or_create_session with one identity      *)
(*              triple, their steps on the event loop                      *)
(*   ArchiveSpec  two sessions that are cleared while messages are         *)
(*              appended and read                                          *)
(*   Spec       scheduled tasks, the APScheduler job table and the firings *)
(*              (initialize_scheduler, set_reminder,                       *)
(*              execute_scheduled_task, lifespan)                          *)
(*   RehydrateSpec  the startup of lifespan over a table of legacy tasks   *)
(*   RequestSpec  the Slack event handlers of src/slack/app.py             *)
(*              (process_user_message, the reset command)                  *)
(* Time is a natural number; datetime.utcnow() / datetime.now() read it.   *)
(***************************************************************************)
EXTENDS Integers, Sequences, FiniteSets, TLC

VARIABLES
    now,                    \* the wall clock read by datetime.utcnow()/now()
    conversation_sessions,  \* table conversation_sessions, in rowid order
    messages,               \* table messages, in rowid (= id) order
    ret,                    \* the last store call and what it returned
    clearedIds,             \* history: the ids clear_session was called with
    calls,                  \* get_or_create_session calls on the event loop: call -> frame
    handlers,               \* Slack event handlers in progress: handler -> frame (mark: history)
    resets,                 \* history: identity -> messages stored when its last reset ended
    scheduled_tasks,        \* table scheduled_tasks: task_id -> row
    pc,                     \* where the lifespan of main.py stands
    scheduler,              \* tasks.scheduler: TRUE once created and started
    slack_client,           \* tasks.slack_client: TRUE once set_slack_client ran
    rag_enabled,            \* config.rag.enabled
    jobs,                   \* the scheduler's job table: task_id -> job
    instances,              \* running execute_scheduled_task coroutines: task_id -> frame
    delivered,              \* history: task_id -> the chat_postMessage calls made for it
    fireLog,                \* history: task_id -> how its last firing ended
    escaped,                \* history: an exception left execute_scheduled_task
    occurrences,            \* history: task_id -> cron occurrences that came due while scheduled
    startedAt,              \* history: when the scheduler was last started
    rehydration             \* history: how the task load of initialize_scheduler ended

requestVars == <<handlers, resets>>
storeVars == <<now, conversation_sessions, messages, ret, clearedIds, calls, requestVars>>
schedVars == <<scheduled_tasks, pc, scheduler, slack_client, rag_enabled, jobs,
               instances, delivered, fireLog, escaped, occurrences, startedAt,
               rehydration>>
vars == <<storeVars, schedVars>>

----------------------------------------------------------------------------
(* Bounds *)
MaxTime == 2
MaxSessions == 3
MaxMessages == 3
MaxLimit == 2
MaxTasks == 2
MaxCalls == 3
MaxArchiveMessages == 1
MaxHandlers == 2

NoneVal == "None"
\* None in a nullable DateTime column
NoTime == -1
NoId == <<>>
Users == {"U1"}
Channels == {NoneVal, "C1"}
Threads == {NoneVal, "T9"}
Roles == {"user"}
UnknownId == <<"session", "U0", 0>>
\* session ids handed to the ledger: add_message takes any string
LedgerIds == {UnknownId, <<"session", "U1", 0>>}

Min(a, b) == IF a <= b THEN a ELSE b

\* f"session_{user_id}_{datetime.utcnow().timestamp()}"
NewSessionId(user_id, t) == <<"session", user_id, t>>

SessionIds == {conversation_sessions[i].session_id : i \in DOMAIN conversation_sessions}

\* query(ConversationSession).filter(session_id == sid).first(): row index or 0
SessionIndex(sid) ==
    IF \E i \in DOMAIN conversation_sessions : conversation_sessions[i].session_id = sid
    THEN CHOOSE i \in DOMAIN conversation_sessions : conversation_sessions[i].session_id = sid
    ELSE 0

\* the WHERE clause built by get_or_create_session: user and is_active always,
\* channel and thread only when the argument is truthy
SessionFilter(s, user_id, channel_id, thread_ts) ==
    /\ s.user_id = user_id
    /\ s.is_active = TRUE
    /\ (channel_id # NoneVal => s.channel_id = channel_id)
    /\ (thread_ts # NoneVal => s.thread_ts = thread_ts)

\* a lookup that never finds a row
FirstMatchNothing(user_id, channel_id, thread_ts) == 0

\* query.first(): no ORDER BY; SQLite walks ix_conversation_sessions_user_id,
\* that is (user_id, rowid), so the lowest matching rowid is returned. 0: no row.
FirstMatch(user_id, channel_id, thread_ts) ==
    LET hits == {i \in DOMAIN conversation_sessions :
                    SessionFilter(conversation_sessions[i], user_id, channel_id, thread_ts)}
    IN IF hits = {} THEN 0
       ELSE CHOOSE i \in hits : \A j \in hits : i <= j

\* a call record: rows are the ORM rows behind the result of a read
Call(op, args, result, raised) ==
    [op |-> op, args |-> args, result |-> result, raised |-> raised, rows |-> <<>>]

\* get_or_create_session after its query returned row i (0: no row): lines
\* 205-224
get_or_create_session_write(i, user_id, channel_id, thread_ts) ==
    LET triple == <<user_id, channel_id, thread_ts>>
        session_id == NewSessionId(user_id, now)
    IN IF i # 0
       THEN \* existing active session: refresh updated_at, return its id
            /\ conversation_sessions' =
                   [conversation_sessions EXCEPT ![i].updated_at = now]
            /\ ret' = Call("resolve", triple, conversation_sessions[i].session_id, "none")
            /\ UNCHANGED clearedIds
       ELSE IF session_id \in SessionIds
       THEN \* primary key collision: commit raises IntegrityError, nothing stored
            /\ ret' = Call("resolve", triple, NoId, "IntegrityError")
            /\ UNCHANGED <<conversation_sessions, clearedIds>>
       ELSE /\ Len(conversation_sessions) < MaxSessions
            /\ conversation_sessions' = Append(conversation_sessions,
                   [session_id |-> session_id, user_id |-> user_id,
                    channel_id |-> channel_id, thread_ts |-> thread_ts,
                    created_at |-> now, updated_at |-> now, is_active |-> TRUE])
            /\ ret' = Call("resolve", triple, session_id, "none")
            /\ UNCHANGED clearedIds

\* get_or_create_session(user_id, channel_id, thread_ts)
get_or_create_session(user_id, channel_id, thread_ts) ==
    get_or_create_session_write(FirstMatch(user_id, channel_id, thread_ts),
                                user_id, channel_id, thread_ts)

Resolve ==
    /\ \E user_id \in Users, channel_id \in Channels, thread_ts \in Threads :
           get_or_create_session(user_id, channel_id, thread_ts)
    /\ UNCHANGED <<now, messages, calls, requestVars, schedVars>>

\* calls that run on threads of their own
ThreadedCalls == FALSE

\* the event loop is inside a call of get_or_create_session: the function is
\* synchronous (no await), so no other handler runs before it returns
EventLoopBusy == \E c \in DOMAIN calls : calls[c].at = "queried"

\* a handler calls get_or_create_session: the query of lines 193-203 runs.
\* The calls of one run all carry the same identity triple.
ResolveQuery ==
    /\ ~EventLoopBusy
    /\ \E c \in (1..MaxCalls) \ DOMAIN calls :
       \E user_id \in Users, channel_id \in Channels, thread_ts \in Threads :
          /\ \A d \in DOMAIN calls : calls[d].args = <<user_id, channel_id, thread_ts>>
          /\ calls' = [x \in DOMAIN calls \cup {c} |->
                          IF x = c
                          THEN [args |-> <<user_id, channel_id, thread_ts>>, at |-> "queried",
                                found |-> FirstMatch(user_id, channel_id, thread_ts),
                                result |-> NoId, raised |-> "none"]
                          ELSE calls[x]]
    /\ UNCHANGED <<now, conversation_sessions, messages, ret, clearedIds, requestVars, schedVars>>

\* the call goes on with the row its query found, and returns
ResolveWrite ==
    /\ \E c \in DOMAIN calls :
          /\ calls[c].at = "queried"
          /\ get_or_create_session_write(calls[c].found, calls[c].args[1],
                                         calls[c].args[2], calls[c].args[3])
          /\ calls' = [calls EXCEPT ![c].at = "returned", ![c].result = ret'.result,
                                    ![c].raised = ret'.raised]
    /\ UNCHANGED <<now, messages, requestVars, schedVars>>

\* add_message(session_id, role, content): the id autoincrements, the
\* timestamp column defaults to datetime.utcnow
add_message(session_id, role) ==
    /\ Len(messages) < MaxMessages
    /\ messages' = Append(messages,
           [id |-> Len(messages) + 1, session_id |-> session_id, role |-> role,
            content |-> Len(messages) + 1, timestamp |-> now])

AddMessage ==
    /\ \E session_id \in SessionIds \cup LedgerIds, role \in Roles :
           add_message(session_id, role)
    /\ UNCHANGED <<now, conversation_sessions, ret, clearedIds, calls, requestVars, schedVars>>

\* a sort that puts a row before the earlier rows of the same timestamp
RECURSIVE OrderByTimestampTiesReversed(_)
OrderByTimestampTiesReversed(rows) ==
    IF rows = <<>> THEN <<>>
    ELSE LET n == Len(rows)
             m == rows[n]
             head == OrderByTimestampTiesReversed(SubSeq(rows, 1, n - 1))
             k == Cardinality({i \in DOMAIN head : head[i].timestamp < m.timestamp})
         IN SubSeq(head, 1, k) \o <<m>> \o SubSeq(head, k + 1, Len(head))

\* ORDER BY timestamp ASC, of a query with LIMIT on the SQLite engine of
\* database.py: the rows are scanned through ix_messages_session_id, that is
\* in rowid (= id) order, and sorted in a temporary b-tree keyed by the
\* timestamp and the position in the scan, so rows of equal timestamp keep
\* their id order. The query itself names no tie-break.
RECURSIVE OrderByTimestamp(_)
OrderByTimestamp(rows) ==
    IF rows = <<>> THEN <<>>
    ELSE LET n == Len(rows)
             m == rows[n]
             head == OrderByTimestamp(SubSeq(rows, 1, n - 1))
             k == Cardinality({i \in DOMAIN head : head[i].timestamp <= m.timestamp})
         IN SubSeq(head, 1, k) \o <<m>> \o SubSeq(head, k + 1, Len(head))

\* a query that drops the LIMIT clause
LimitIgnored(rows, limit) == rows

\* .limit(limit): the first `limit` rows of the ordered result
Limit(rows, limit) == SubSeq(rows, 1, Min(limit, Len(rows)))

\* the query of get_session_history: filter, order_by, limit, all
QueryHistory(session_id, limit) ==
    Limit(OrderByTimestamp(SelectSeq(messages, LAMBDA m : m.session_id = session_id)), limit)

\* the list of dicts get_session_history returns
HistoryDicts(rows) ==
    [i \in DOMAIN rows |->
        [role |-> rows[i].role, content |-> rows[i].content, timestamp |-> rows[i].timestamp]]

get_session_history(session_id, limit) ==
    LET rows == QueryHistory(session_id, limit)
    IN ret' = [Call("read", <<session_id, limit>>, HistoryDicts(rows), "none")
                  EXCEPT !.rows = rows]

GetSessionHistory ==
    /\ \E session_id \in SessionIds \cup LedgerIds, limit \in 0..MaxLimit :
           get_session_history(session_id, limit)
    /\ UNCHANGED <<now, conversation_sessions, messages, clearedIds, calls, requestVars, schedVars>>

\* a clear that forgets the flag
ClearedRowStillActive(s) == [s EXCEPT !.updated_at = now]

\* the row written by clear_session: is_active = False; the UPDATE also fires
\* the column's onupdate=datetime.utcnow. A row that is inactive already has
\* no changed attribute, and no UPDATE is sent for it.
ClearedRow(s) ==
    IF s.is_active THEN [s EXCEPT !.is_active = FALSE, !.updated_at = now] ELSE s

\* a clear that deletes the row
clear_session_delete(session_id) ==
    /\ conversation_sessions' =
           SelectSeq(conversation_sessions, LAMBDA s : s.session_id # session_id)
    /\ ret' = Call("clear", <<session_id>>, <<>>, "none")
    /\ clearedIds' = clearedIds \cup {session_id}

\* clear_session(session_id)
clear_session(session_id) ==
    LET i == SessionIndex(session_id)
    IN /\ conversation_sessions' =
              IF i # 0
              THEN [conversation_sessions EXCEPT ![i] = ClearedRow(conversation_sessions[i])]
              ELSE conversation_sessions
       /\ ret' = Call("clear", <<session_id>>, <<>>, "none")
       /\ clearedIds' = clearedIds \cup {session_id}

ClearSession ==
    /\ \E session_id \in SessionIds \cup {UnknownId} : clear_session(session_id)
    /\ UNCHANGED <<now, messages, calls, requestVars, schedVars>>

\* time passes
Tick ==
    /\ now < MaxTime
    /\ now' = now + 1
    /\ UNCHANGED <<conversation_sessions, messages, ret, clearedIds, calls, requestVars, schedVars>>

\* the wall clock is set back (utcnow is not monotonic)
ClockStepBack ==
    /\ \E t \in 0..(now - 1) : now' = t
    /\ UNCHANGED <<conversation_sessions, messages, ret, clearedIds, calls, requestVars, schedVars>>

StoreInit ==
    /\ now = 0
    /\ conversation_sessions = <<>>
    /\ messages = <<>>
    /\ ret = Call("none", <<>>, NoId, "none")
    /\ clearedIds = {}
    /\ calls = <<>>
    /\ handlers = <<>>
    /\ resets = <<>>

\* the process is not running: the module globals of tasks.py are unset
ProcessDown ==
    /\ pc = "down"
    /\ scheduler = FALSE
    /\ slack_client = FALSE
    /\ jobs = <<>>
    /\ instances = <<>>
    /\ startedAt = NoTime
    /\ rehydration = "none"

\* the empty store with no task, the process down
NoScheduler ==
    /\ StoreInit
    /\ scheduled_tasks = <<>>
    /\ rag_enabled = TRUE
    /\ ProcessDown
    /\ delivered = <<>>
    /\ fireLog = <<>>
    /\ escaped = FALSE
    /\ occurrences = <<>>

\* the session resolver: resolve and clear under a running clock
SessionNext ==
    \/ Resolve
    \/ ClearSession
    \/ Tick

SessionSpec == NoScheduler /\ [][SessionNext]_vars

\* the history ledger: append and read; the session ids are any strings
LedgerNext ==
    \/ AddMessage
    \/ GetSessionHistory
    \/ Tick
    \/ ClockStepBack

LedgerSpec == NoScheduler /\ [][LedgerNext]_vars

\* simultaneous first contact: calls of get_or_create_session with one identity
\* triple on an empty store
ConcurrentNext ==
    \/ ResolveQuery
    \/ ResolveWrite
    \/ Tick

ConcurrentSpec == NoScheduler /\ [][ConcurrentNext]_vars

\* a store after two resolves: a channel session made at time 0 and a thread
\* session of the same channel made at time 1, both active, no message yet
TwoSessions ==
    /\ now = 1
    /\ conversation_sessions =
          <<[session_id |-> NewSessionId("U1", 0), user_id |-> "U1", channel_id |-> "C1",
             thread_ts |-> NoneVal, created_at |-> 0, updated_at |-> 0, is_active |-> TRUE],
            [session_id |-> NewSessionId("U1", 1), user_id |-> "U1", channel_id |-> "C1",
             thread_ts |-> "T9", created_at |-> 1, updated_at |-> 1, is_active |-> TRUE]>>
    /\ messages = <<>>
    /\ ret = Call("resolve", <<"U1", "C1", "T9">>, NewSessionId("U1", 1), "none")
    /\ clearedIds = {}
    /\ calls = <<>>
    /\ handlers = <<>>
    /\ resets = <<>>
    /\ scheduled_tasks = <<>>
    /\ rag_enabled = TRUE
    /\ ProcessDown
    /\ delivered = <<>>
    /\ fireLog = <<>>
    /\ escaped = FALSE
    /\ occurrences = <<>>

\* the sessions of that store are cleared, messages are appended and read
ArchiveNext ==
    \/ Len(messages) < MaxArchiveMessages /\ AddMessage
    \/ ClearSession
    \/ GetSessionHistory
    \/ Tick

ArchiveSpec == TwoSessions /\ [][ArchiveNext]_vars

----------------------------------------------------------------------------
(* The reminder scheduler: src/scheduler/tasks.py under the lifespan of      *)
(* src/main.py. One time unit is a day: the delay of a reminder and the      *)
(* period of the daily cron task are one unit, and the one second of         *)
(* APScheduler's misfire_grace_time is less than a unit.                     *)

\* timedelta(days=1)
ReminderDelay == 1
\* the distance of two occurrences of the cron expression
CronPeriod == 1
\* misfire_grace_time of AsyncIOScheduler(): 1 second, no whole unit
MisfireGrace == 0

\* None in the nullable cron_expression column
NoCron == <<>>
\* cron expressions, as their whitespace-separated fields
DailyCron == <<"0", "9", "*", "*", "*">>
BadCron == <<"daily">>
Whens == {<<"tomorrow", "at", "10am">>, <<"in", "2", "hours">>}
Messages == {"ping"}
Exceptions == {"ActionError", "StorageError"}

\* rows a previous deployment left in scheduled_tasks: a daily recurring task
SeedTasks ==
    {[task_id |-> <<"task", "R1", 0>>, user_id |-> "U1", channel_id |-> "C1",
      task_type |-> "message", message |-> "standup", schedule_time |-> NoTime,
      cron_expression |-> DailyCron, is_recurring |-> TRUE, is_active |-> TRUE,
      created_at |-> 0, last_run |-> NoTime]}

\* rows of scheduled_tasks that were not written by set_reminder: the daily
\* task, a recurring task whose cron_expression is no crontab line, a task
\* with neither schedule_time nor cron_expression, a one-time task and a task
\* that is not active
LegacyTasks ==
    SeedTasks \cup
    {[task_id |-> <<"task", "R2", 0>>, user_id |-> "U1", channel_id |-> "C1",
      task_type |-> "message", message |-> "report", schedule_time |-> NoTime,
      cron_expression |-> BadCron, is_recurring |-> TRUE, is_active |-> TRUE,
      created_at |-> 0, last_run |-> NoTime],
     [task_id |-> <<"task", "N1", 0>>, user_id |-> "U1", channel_id |-> "C1",
      task_type |-> "message", message |-> "note", schedule_time |-> NoTime,
      cron_expression |-> NoCron, is_recurring |-> FALSE, is_active |-> TRUE,
      created_at |-> 0, last_run |-> NoTime],
     [task_id |-> <<"task", "O1", 0>>, user_id |-> "U1", channel_id |-> "C1",
      task_type |-> "reminder", message |-> "ping", schedule_time |-> 1,
      cron_expression |-> NoCron, is_recurring |-> FALSE, is_active |-> TRUE,
      created_at |-> 0, last_run |-> NoTime],
     [task_id |-> <<"task", "I1", 0>>, user_id |-> "U1", channel_id |-> "C1",
      task_type |-> "reminder", message |-> "done", schedule_time |-> 0,
      cron_expression |-> NoCron, is_recurring |-> FALSE, is_active |-> FALSE,
      created_at |-> 0, last_run |-> 0]}

\* the table that holds exactly the rows S
TableOf(S) == [tid \in {t.task_id : t \in S} |-> CHOOSE t \in S : t.task_id = tid]

TaskIds == DOMAIN scheduled_tasks

\* f with key k set to v (the key added when missing)
Put(f, k, v) == [x \in DOMAIN f \cup {k} |-> IF x = k THEN v ELSE f[x]]

\* f without key k
Drop(f, k) == [x \in DOMAIN f \ {k} |-> f[x]]

\* f"reminder_{user_id}_{datetime.now().timestamp()}"
NewTaskId(user_id, t) == <<"reminder", user_id, t>>

\* the schedule_time set_reminder derives from `when`, NoTime when it cannot
ParseWhen(when) ==
    IF \E i \in DOMAIN when : when[i] = "tomorrow"
    THEN now + ReminderDelay
    ELSE NoTime

\* an except clause that lets delivery errors through
ExceptStorageOnly(e) == e = "StorageError"

\* `except Exception` of execute_scheduled_task
ExceptCatches(e) == e \in Exceptions

\* the trigger initialize_scheduler and set_reminder build for a task, and the
\* first run time add_job computes from it (NoTime: no valid schedule)
FirstRunTime(task) ==
    IF task.is_recurring /\ task.cron_expression # NoCron
    THEN now + CronPeriod
    ELSE IF task.schedule_time # NoTime
    THEN task.schedule_time
    ELSE NoTime

Job(task) ==
    [trigger |-> IF task.is_recurring /\ task.cron_expression # NoCron
                 THEN "cron" ELSE "date",
     next_run_time |-> FirstRunTime(task)]

\* initialize_database()
initialize_database ==
    /\ pc = "down"
    /\ pc' = "db"
    /\ UNCHANGED <<storeVars, scheduled_tasks, scheduler, slack_client, rag_enabled,
                   jobs, instances, delivered, fireLog, escaped, occurrences, startedAt, rehydration>>

\* CronTrigger.from_crontab(expr): ValueError unless expr has five fields
FromCrontabRaises(expr) == Len(expr) # 5

\* the trigger built for the row raises
TriggerRaises(task) ==
    task.is_recurring /\ task.cron_expression # NoCron /\ FromCrontabRaises(task.cron_expression)

\* the rows of `filter(is_active == True).all()`
ActiveTasks == {tid \in TaskIds : scheduled_tasks[tid].is_active}

\* the rows the loop of initialize_scheduler gets through: all active rows,
\* or, when the trigger of a row raises, the rows the query returned before the
\* first such row (the query has no ORDER BY: any of the others may come first)
LoadedRows ==
    LET raising == {tid \in ActiveTasks : TriggerRaises(scheduled_tasks[tid])}
    IN IF raising = {} THEN {ActiveTasks} ELSE SUBSET (ActiveTasks \ raising)

\* initialize_scheduler(): a job for every active task with a valid schedule
\* that the loop reaches; an exception of the query or of a trigger ends the
\* load (`except Exception`, line 132); then scheduler.start()
initialize_scheduler_load ==
    /\ scheduler' = TRUE
    /\ \E dbfail \in BOOLEAN :
       \E rows \in (IF dbfail THEN {{}} ELSE LoadedRows) :
          /\ jobs' = [tid \in {t \in rows : FirstRunTime(scheduled_tasks[t]) # NoTime}
                         |-> Job(scheduled_tasks[tid])]
          /\ rehydration' = IF dbfail THEN "failed"
                             ELSE IF rows = ActiveTasks THEN "complete" ELSE "aborted"
    /\ startedAt' = now

\* the call of initialize_scheduler in lifespan: when it raises (the
\* AsyncIOScheduler() constructor, before the global is assigned), the
\* exception is logged and the startup goes on without a scheduler
initialize_scheduler ==
    /\ pc = "db"
    /\ pc' = "sched"
    /\ \/ initialize_scheduler_load
       \/ UNCHANGED <<scheduler, jobs, rehydration, startedAt>>
    /\ UNCHANGED <<storeVars, scheduled_tasks, slack_client, rag_enabled,
                   instances, delivered, fireLog, escaped, occurrences>>

\* the rest of the startup: the Slack app, then set_slack_client when RAG is
\* enabled, then the service is ready
lifespan_ready ==
    /\ pc = "sched"
    /\ pc' = "ready"
    /\ slack_client' = rag_enabled
    /\ UNCHANGED <<storeVars, scheduled_tasks, scheduler, rag_enabled, jobs,
                   instances, delivered, fireLog, escaped, occurrences, startedAt, rehydration>>

\* the process stops (scheduler.shutdown() cancels what runs); the next start
\* is at least one time unit later
Shutdown ==
    /\ pc = "ready"
    /\ now < MaxTime
    /\ now' = now + 1
    /\ pc' = "down"
    /\ scheduler' = FALSE
    /\ slack_client' = FALSE
    /\ jobs' = <<>>
    /\ instances' = <<>>
    /\ startedAt' = NoTime
    /\ rehydration' = "none"
    /\ UNCHANGED <<conversation_sessions, messages, ret, clearedIds, calls, requestVars,
                   scheduled_tasks, rag_enabled, delivered, fireLog, escaped, occurrences>>

\* a check that lets every schedule_time through
ParsedAlways(schedule_time) == FALSE

\* `if not schedule_time`
NotParsed(schedule_time) == schedule_time = NoTime

\* set_reminder(user_id, channel_id, message, when)
set_reminder(user_id, channel_id, message, when, dbfail) ==
    LET schedule_time == ParseWhen(when)
        task_id == NewTaskId(user_id, now)
        task == [task_id |-> task_id, user_id |-> user_id, channel_id |-> channel_id,
                 task_type |-> "reminder", message |-> message,
                 schedule_time |-> schedule_time, cron_expression |-> NoCron,
                 is_recurring |-> FALSE, is_active |-> TRUE,
                 created_at |-> now, last_run |-> NoTime]
    IN IF NotParsed(schedule_time)
       THEN /\ ret' = Call("set_reminder", <<when>>, <<"could not parse">>, "none")
            /\ UNCHANGED <<scheduled_tasks, jobs>>
       ELSE IF dbfail \/ task_id \in TaskIds
       THEN \* the commit raises; `except Exception` turns it into a message
            /\ ret' = Call("set_reminder", <<when>>, <<"error">>, "none")
            /\ UNCHANGED <<scheduled_tasks, jobs>>
       ELSE /\ Cardinality(TaskIds) < MaxTasks
            /\ scheduled_tasks' = Put(scheduled_tasks, task_id, task)
            /\ jobs' = IF scheduler THEN Put(jobs, task_id, Job(task)) ELSE jobs
            /\ ret' = Call("set_reminder", <<when>>, <<"ok", schedule_time>>, "none")

SetReminder ==
    /\ pc = "ready"
    /\ \E when \in Whens, message \in Messages, dbfail \in BOOLEAN :
           set_reminder("U1", "C1", message, when, dbfail)
    /\ UNCHANGED <<now, conversation_sessions, messages, clearedIds, calls, requestVars, pc, scheduler,
                   slack_client, rag_enabled, instances, delivered, fireLog, escaped,
                   occurrences, startedAt, rehydration>>

\* a delivery call that blocks the thread of the event loop until it returns
BlockingDelivery == \A tid \in DOMAIN instances : instances[tid].at # "awaiting"

\* the event loop can run the timer of the scheduler and other coroutines:
\* no execute_scheduled_task coroutine is between two of its awaits. A firing
\* is either not started yet or suspended in `await chat_postMessage`, the one
\* await of the coroutine (AsyncIOScheduler runs coroutine jobs as tasks of
\* the loop).
EventLoopFree == \A tid \in DOMAIN instances : instances[tid].at \in {"submitted", "awaiting"}

\* max_instances of a job added without the argument (scheduler default)
max_instances == 1

\* instances of the job the executor is running
RunningInstances(tid) == IF tid \in DOMAIN instances THEN instances[tid].running ELSE 0

\* an executor with no limit on the instances of a job
MaxInstancesNever(tid) == FALSE

\* the executor refuses the run: "maximum number of running instances reached"
MaxInstancesReached(tid) == RunningInstances(tid) >= max_instances

\* cron occurrences of the task the timer has seen come due
Occurrences(tid) == IF tid \in DOMAIN occurrences THEN occurrences[tid] ELSE 0

\* the timer of the scheduler: a due job is handed to the executor, unless an
\* instance of it still runs (max_instances = 1); a date job is then removed,
\* a cron job gets its next run time
ProcessJob(tid) ==
    /\ scheduler
    /\ EventLoopFree
    /\ tid \in DOMAIN jobs
    /\ jobs[tid].next_run_time <= now
    /\ instances' = IF MaxInstancesReached(tid) THEN instances
                    ELSE IF tid \in DOMAIN instances
                    THEN [instances EXCEPT ![tid].running = @ + 1]
                    ELSE Put(instances, tid,
                             [at |-> "submitted", run_time |-> jobs[tid].next_run_time,
                              is_recurring |-> FALSE, running |-> 1, db |-> "closed"])
    /\ jobs' = IF jobs[tid].trigger = "cron"
               THEN [jobs EXCEPT ![tid].next_run_time = now + CronPeriod]
               ELSE Drop(jobs, tid)
    /\ occurrences' = IF jobs[tid].trigger = "cron"
                      THEN Put(occurrences, tid, Occurrences(tid) + 1)
                      ELSE occurrences
    /\ UNCHANGED <<storeVars, scheduled_tasks, pc, scheduler, slack_client,
                   rag_enabled, delivered, fireLog, escaped, startedAt, rehydration>>

\* scheduler._process_jobs, for one due job
ProcessDueJobs == \E tid \in DOMAIN jobs : ProcessJob(tid)

\* what a firing writes before db.commit(): last_run, and is_active = False
\* unless the task is recurring
RecordExecution(task, is_recurring) ==
    [task EXCEPT !.last_run = now,
                 !.is_active = IF is_recurring THEN task.is_active ELSE FALSE]

Outcome(tid, outcome) == Put(fireLog, tid, outcome)

\* an exception raised inside the try block of execute_scheduled_task
Raise(tid, e, outcome) ==
    /\ escaped' = (escaped \/ ~ExceptCatches(e))
    /\ fireLog' = Outcome(tid, outcome)
    /\ instances' = Drop(instances, tid)

\* a re-check that forgets is_active
NotFoundOnly(tid) == tid \notin TaskIds

\* `if not task or not task.is_active`
NotFoundOrInactive(tid) == tid \notin TaskIds \/ ~scheduled_tasks[tid].is_active

\* the coroutine starts: the executor drops a run that is too late; otherwise
\* execute_scheduled_task runs up to the await of chat_postMessage, or to its
\* end when there is no Slack client
ExecBegin(tid) ==
    /\ EventLoopFree
    /\ tid \in DOMAIN instances
    /\ instances[tid].at = "submitted"
    /\ \E dbfail \in BOOLEAN :
        IF now - instances[tid].run_time > MisfireGrace
        THEN \* run time missed: the job function is not called
             /\ fireLog' = Outcome(tid, "missed")
             /\ instances' = Drop(instances, tid)
             /\ UNCHANGED <<scheduled_tasks, delivered, escaped>>
        ELSE IF dbfail
        THEN /\ Raise(tid, "StorageError", "dberror")
             /\ UNCHANGED <<scheduled_tasks, delivered>>
        ELSE IF NotFoundOrInactive(tid)
        THEN /\ fireLog' = Outcome(tid, "skipped")
             /\ instances' = Drop(instances, tid)
             /\ UNCHANGED <<scheduled_tasks, delivered, escaped>>
        ELSE IF slack_client
        THEN /\ delivered' = Put(delivered, tid,
                    (IF tid \in DOMAIN delivered THEN delivered[tid] ELSE <<>>)
                    \o <<[channel |-> scheduled_tasks[tid].channel_id,
                          text |-> <<"Reminder", scheduled_tasks[tid].message>>]>>)
             /\ instances' = [instances EXCEPT ![tid].at = "awaiting",
                                 ![tid].is_recurring = scheduled_tasks[tid].is_recurring,
                                 ![tid].db = "open"]
             /\ UNCHANGED <<scheduled_tasks, fireLog, escaped>>
        ELSE /\ scheduled_tasks' = [scheduled_tasks EXCEPT ![tid] =
                    RecordExecution(@, scheduled_tasks[tid].is_recurring)]
             /\ fireLog' = Outcome(tid, "nodelivery")
             /\ instances' = Drop(instances, tid)
             /\ UNCHANGED <<delivered, escaped>>
    /\ UNCHANGED <<storeVars, pc, scheduler, slack_client, rag_enabled, jobs,
                   occurrences, startedAt, rehydration>>

\* chat_postMessage returns or raises, and the coroutine runs to its end
ExecEnd(tid) ==
    /\ EventLoopFree
    /\ tid \in DOMAIN instances
    /\ instances[tid].at = "awaiting"
    /\ \E result \in {"ok", "ActionError", "StorageError"} :
        IF result = "ok" /\ tid \in TaskIds
        THEN /\ scheduled_tasks' = [scheduled_tasks EXCEPT ![tid] =
                    RecordExecution(@, instances[tid].is_recurring)]
             /\ fireLog' = Outcome(tid, "delivered")
             /\ instances' = Drop(instances, tid)
             /\ UNCHANGED escaped
        ELSE IF result = "ActionError"
        THEN \* the call raised: lines 70-77 are skipped
             /\ Raise(tid, "ActionError", "failed")
             /\ UNCHANGED scheduled_tasks
        ELSE \* the call returned, db.commit() raised (or the row is gone)
             /\ Raise(tid, "StorageError", "dberror")
             /\ UNCHANGED scheduled_tasks
    /\ UNCHANGED <<storeVars, pc, scheduler, slack_client, rag_enabled, jobs,
                   delivered, occurrences, startedAt, rehydration>>

\* execute_scheduled_task(task_id), a step of it
execute_scheduled_task == \E tid \in DOMAIN instances : ExecBegin(tid) \/ ExecEnd(tid)

\* the row of a scheduled task is deactivated in the database file, not by
\* this program (the drift the re-check of execute_scheduled_task is for); seen
\* from the firing, only that it happened before the job came due matters
DeactivateOutOfBand ==
    /\ \E tid \in TaskIds \cap DOMAIN jobs :
          /\ scheduled_tasks[tid].is_active
          /\ jobs[tid].next_run_time <= now
          /\ scheduled_tasks' = [scheduled_tasks EXCEPT ![tid].is_active = FALSE]
    /\ UNCHANGED <<storeVars, pc, scheduler, slack_client, rag_enabled, jobs, instances,
                   delivered, fireLog, escaped, occurrences, startedAt, rehydration>>

\* the event loop has something to do right now
Urgent ==
    \/ scheduler /\ \E tid \in DOMAIN jobs : jobs[tid].next_run_time <= now
    \/ \E tid \in DOMAIN instances : instances[tid].at = "submitted"

\* time passes; the timer and a submitted coroutine are not late while the
\* process runs
Clock ==
    /\ now < MaxTime
    /\ ~Urgent
    /\ now' = now + 1
    /\ UNCHANGED <<conversation_sessions, messages, ret, clearedIds, calls, requestVars, schedVars>>

Init ==
    /\ StoreInit
    /\ scheduled_tasks \in {TableOf(S) : S \in SUBSET SeedTasks}
    /\ rag_enabled \in BOOLEAN
    /\ ProcessDown
    /\ delivered = <<>>
    /\ fireLog = <<>>
    /\ escaped = FALSE
    /\ occurrences = <<>>

Next ==
    \/ initialize_database
    \/ initialize_scheduler
    \/ lifespan_ready
    \/ Shutdown
    \/ SetReminder
    \/ ProcessDueJobs
    \/ execute_scheduled_task
    \/ DeactivateOutOfBand
    \/ Clock

Spec == Init /\ [][Next]_vars

\* the process starts and stops over a table of legacy rows
LegacyInit ==
    /\ StoreInit
    /\ scheduled_tasks \in {TableOf(S) : S \in SUBSET LegacyTasks}
    /\ rag_enabled \in BOOLEAN
    /\ ProcessDown
    /\ delivered = <<>>
    /\ fireLog = <<>>
    /\ escaped = FALSE
    /\ occurrences = <<>>

RehydrateNext ==
    \/ initialize_database
    \/ initialize_scheduler
    \/ lifespan_ready
    \/ Shutdown
    \/ Clock

RehydrateSpec == LegacyInit /\ [][RehydrateNext]_vars

----------------------------------------------------------------------------
(* The request path of src/slack/app.py: handle_message / handle_mention    *)
(* call handle_special_command (the reset command) or process_user_message. *)
(* The handlers are coroutines of one event loop; the store functions they  *)
(* call are synchronous, so a handler is only interleaved with another at   *)
(* its awaits.                                                              *)

\* get_session_history(session_id): limit defaults to 50
DefaultLimit == 50
\* the identities of Slack events: event["channel"] is always set, thread_ts
\* is None outside a thread
Identities == {<<user_id, channel_id, thread_ts>> :
                  user_id \in Users, channel_id \in Channels \ {NoneVal}, thread_ts \in Threads}

\* a handler is between two store calls that no await separates
HandlerRunning == \E h \in DOMAIN handlers : handlers[h].at = "resolved"

\* the frame of a new handler
FreeHandlers == (1..MaxHandlers) \ DOMAIN handlers

\* a finished handler is gone
Returned(h) == Drop(handlers, h)

\* process_user_message, line 314: get_or_create_session
HandleMessage ==
    /\ ~HandlerRunning
    /\ FreeHandlers # {}
    /\ \E identity \in Identities :
          /\ get_or_create_session(identity[1], identity[2], identity[3])
          /\ handlers' =
                IF ret'.raised # "none"
                THEN \* `except Exception`, line 367: an error message is sent
                     handlers
                ELSE Put(handlers, CHOOSE h \in FreeHandlers : \A j \in FreeHandlers : h <= j,
                         [kind |-> "message", args |-> identity, at |-> "resolved",
                          session_id |-> ret'.result,
                          after_reset |-> identity \in DOMAIN resets,
                          mark |-> IF identity \in DOMAIN resets
                                   THEN resets[identity] ELSE 0])
          /\ resets' = IF ret'.raised = "none" /\ identity \in DOMAIN resets
                       THEN Drop(resets, identity) ELSE resets
    /\ UNCHANGED <<now, messages, calls, schedVars>>

\* line 317: add_message(session_id, "user", text), then the await of
\* client.reactions_add
AppendUser ==
    /\ \E h \in DOMAIN handlers :
          /\ handlers[h].kind = "message"
          /\ handlers[h].at = "resolved"
          /\ add_message(handlers[h].session_id, "user")
          /\ handlers' = [handlers EXCEPT ![h].at = "reacting"]
    /\ UNCHANGED <<now, conversation_sessions, ret, clearedIds, calls, resets, schedVars>>

\* line 330: get_session_history(session_id), then the awaits of the agent,
\* of client.reactions_remove and of say
ReadHistory ==
    /\ ~HandlerRunning
    /\ \E h \in DOMAIN handlers :
          /\ handlers[h].at = "reacting"
          /\ get_session_history(handlers[h].session_id, DefaultLimit)
          /\ handlers' = [handlers EXCEPT ![h].at = "agent"]
    /\ UNCHANGED <<now, conversation_sessions, messages, clearedIds, calls, resets, schedVars>>

\* line 363: add_message(session_id, "assistant", response) with the session
\* id of line 314; or an await before it raised and nothing is appended
AppendAssistant ==
    /\ ~HandlerRunning
    /\ \E h \in DOMAIN handlers :
          /\ handlers[h].at = "agent"
          /\ \/ add_message(handlers[h].session_id, "assistant")
             \/ UNCHANGED messages
          /\ handlers' = Returned(h)
    /\ UNCHANGED <<now, conversation_sessions, ret, clearedIds, calls, resets, schedVars>>

\* process_user_message(user_id, channel_id, thread_ts, ...), a step of it
process_user_message == HandleMessage \/ AppendUser \/ ReadHistory \/ AppendAssistant

\* handle_special_command, the reset command, line 264: get_or_create_session
HandleReset ==
    /\ ~HandlerRunning
    /\ FreeHandlers # {}
    /\ \E identity \in Identities :
          /\ get_or_create_session(identity[1], identity[2], identity[3])
          /\ handlers' =
                IF ret'.raised # "none"
                THEN handlers
                ELSE Put(handlers, CHOOSE h \in FreeHandlers : \A j \in FreeHandlers : h <= j,
                         [kind |-> "reset", args |-> identity, at |-> "resolved",
                          session_id |-> ret'.result, after_reset |-> FALSE, mark |-> 0])
    /\ UNCHANGED <<now, messages, calls, resets, schedVars>>

\* line 265: clear_session(session_id), then the await of say: the reset of
\* the identity is complete
ResetClear ==
    /\ \E h \in DOMAIN handlers :
          /\ handlers[h].kind = "reset"
          /\ handlers[h].at = "resolved"
          /\ clear_session(handlers[h].session_id)
          /\ handlers' = Returned(h)
          /\ resets' = Put(resets, handlers[h].args, Len(messages))
    /\ UNCHANGED <<now, messages, calls, schedVars>>

\* handle_special_command(text, user_id, channel_id, say, thread_ts) with the
\* text "reset", a step of it
handle_special_command == HandleReset \/ ResetClear

RequestNext ==
    \/ process_user_message
    \/ handle_special_command
    \/ Tick

RequestSpec == NoScheduler /\ [][RequestNext]_vars

----------------------------------------------------------------------------
(* Session resolver: C1 .. C3, under SessionSpec *)

SessionOf(sid) == conversation_sessions[SessionIndex(sid)]

Resolved(r) == r.op = "resolve" /\ r.raised = "none"

\* C1: a resolve that directly follows a resolve of the same identity triple
\* (time may pass, no clear and no other call in between) returns the same
\* session id, and it adds no row to conversation_sessions.
C1_ConsecutiveResolveSameSession ==
    [][(Resolved(ret) /\ ret'.op = "resolve" /\ ret'.args = ret.args)
          => /\ ret'.raised = "none"
             /\ ret'.result = ret.result
             /\ Len(conversation_sessions') = Len(conversation_sessions)]_vars

\* a resolve reused a session at a later time than its creation, while two
\* active sessions matched the lookup
C1_Witness ==
    /\ Resolved(ret)
    /\ SessionOf(ret.result).updated_at > SessionOf(ret.result).created_at
    /\ Cardinality({i \in DOMAIN conversation_sessions :
           SessionFilter(conversation_sessions[i], ret.args[1], ret.args[2], ret.args[3])}) >= 2

C3_ThreadScopedSessions ==
    [][/\ (Resolved(ret') =>
             conversation_sessions'[CHOOSE i \in DOMAIN conversation_sessions' :
                 conversation_sessions'[i].session_id = ret'.result].thread_ts = ret'.args[3])
       /\ (Resolved(ret) /\ Resolved(ret')
             /\ ret.args[1] = ret'.args[1] /\ ret.args[2] = ret'.args[2]
             /\ ret.args[3] # ret'.args[3]
             => ret'.result # ret.result)]_vars

----------------------------------------------------------------------------
(* History ledger: C4, C5, under LedgerSpec *)

IsRead(r) == r.op = "read"

MessagesOf(session_id) == SelectSeq(messages, LAMBDA m : m.session_id = session_id)

\* the messages of a session from oldest to newest, by (timestamp, id)
Chronological(session_id) == OrderByTimestamp(MessagesOf(session_id))

InRows(m, rows) == \E i \in DOMAIN rows : rows[i] = m

\* C4: a read with limit >= 1 of a session holding more than limit messages
\* returns the tail of the log: the newest message is in the result and the
\* oldest is not.
C4_ReadReturnsTail ==
    [][(IsRead(ret') /\ ret' # ret /\ ret'.args[2] >= 1
          /\ Len(MessagesOf(ret'.args[1])) > ret'.args[2])
          => LET log == Chronological(ret'.args[1])
             IN /\ InRows(log[Len(log)], ret'.rows)
                /\ ~InRows(log[1], ret'.rows)]_vars

\* C5: a read(session_id, N) returns at most N messages, every one a stored
\* message of that session, in non-decreasing timestamp order.
C5_ReadBoundedSortedOwn ==
    IsRead(ret) =>
        /\ Len(ret.result) <= ret.args[2]
        /\ Len(ret.rows) = Len(ret.result)
        /\ \A i \in DOMAIN ret.rows :
               /\ ret.rows[i].session_id = ret.args[1]
               /\ InRows(ret.rows[i], messages)
        /\ \A i, j \in DOMAIN ret.result :
               i < j => ret.result[i].timestamp <= ret.result[j].timestamp

\* a read cut a longer log down to N = 2 rows that the sort had to reorder,
\* while the store also held a message of another session
C5_Witness ==
    /\ IsRead(ret)
    /\ ret.args[2] = 2
    /\ Len(ret.rows) = 2
    /\ ret.rows[1].id > ret.rows[2].id
    /\ Len(MessagesOf(ret.args[1])) > 2 \/ Len(messages) > Len(MessagesOf(ret.args[1]))

----------------------------------------------------------------------------
(* Execution dispatcher and trigger engine: C6 .. C10, under Spec *)

Fired(tid) == tid \in DOMAIN fireLog

\* the firing of tid ends in this step (its coroutine returns; not a shutdown)
FiringEnds(tid) ==
    /\ tid \in DOMAIN instances
    /\ tid \notin DOMAIN instances'
    /\ pc' = pc

Calls(tid) == IF tid \in DOMAIN delivered THEN delivered[tid] ELSE <<>>

\* C6: after a firing of an active task whose delivery callback was invoked,
\* whether it returned or raised, last_run is set and a one-time task is
\* inactive.
C6_ExecutionRecordedWhateverDelivery ==
    \A tid \in DOMAIN fireLog :
        fireLog[tid] \in {"delivered", "failed"} =>
            /\ scheduled_tasks[tid].last_run # NoTime
            /\ (~scheduled_tasks[tid].is_recurring => ~scheduled_tasks[tid].is_active)

\* C7: no exception leaves execute_scheduled_task, and a firing of task A that
\* ends in a delivery or store failure leaves the job, the running instance
\* and the row of every other task B as they were, and the scheduler running.
C7_FailureIsolated ==
    [][/\ ~escaped'
       /\ \A A \in DOMAIN instances :
            (FiringEnds(A) /\ fireLog'[A] \in {"failed", "dberror"}) =>
                /\ scheduler' = scheduler
                /\ \A B \in (TaskIds \cup DOMAIN jobs \cup DOMAIN instances) \ {A} :
                     /\ B \in DOMAIN jobs => (B \in DOMAIN jobs' /\ jobs'[B] = jobs[B])
                     /\ B \in DOMAIN instances =>
                            (B \in DOMAIN instances' /\ instances'[B] = instances[B])
                     /\ B \in TaskIds =>
                            (B \in DOMAIN scheduled_tasks'
                             /\ scheduled_tasks'[B] = scheduled_tasks[B])]_vars

\* the delivery of one-time task A, due now, failed, and task B fired at the
\* same time was delivered and recorded
C7_Witness ==
    \E A, B \in TaskIds :
        /\ A # B
        /\ Fired(A) /\ fireLog[A] = "failed"
        /\ scheduled_tasks[A].schedule_time = now
        /\ Fired(B) /\ fireLog[B] = "delivered"
        /\ scheduled_tasks[B].last_run = now

\* C8: a one-time task that was active at startup with a fire time before the
\* start, and that the startup loaded, has, once its job left the job table
\* and no firing of it runs, been fired, and it is inactive with last_run set.
C8_PastDueFiredThenDone ==
    \A tid \in TaskIds :
        (/\ scheduler
         /\ rehydration = "complete"
         /\ ~scheduled_tasks[tid].is_recurring
         /\ scheduled_tasks[tid].schedule_time # NoTime
         /\ scheduled_tasks[tid].schedule_time < startedAt
         /\ scheduled_tasks[tid].is_active \/ scheduled_tasks[tid].last_run >= startedAt
         /\ tid \notin DOMAIN jobs
         /\ tid \notin DOMAIN instances)
        => /\ Fired(tid) /\ fireLog[tid] # "missed"
           /\ ~scheduled_tasks[tid].is_active
           /\ scheduled_tasks[tid].last_run >= startedAt

\* C9: when a firing of a recurring task that is still active ends, the task
\* is active and its last_run is greater than before the firing.
C9_RecurringStaysActiveLastRunGrows ==
    [][\A tid \in DOMAIN instances :
          (/\ FiringEnds(tid)
           /\ fireLog'[tid] \in {"delivered", "failed", "nodelivery"}
           /\ tid \in TaskIds
           /\ scheduled_tasks[tid].is_recurring
           /\ scheduled_tasks[tid].is_active)
          => /\ scheduled_tasks'[tid].is_active
             /\ scheduled_tasks'[tid].last_run > scheduled_tasks[tid].last_run]_vars

\* C10: a reminder stored by set_reminder since the scheduler started, and not
\* deactivated by anyone else before its firing, has, once its fire time has
\* passed and no firing of it runs, been delivered exactly once with its
\* channel and message, and it is inactive; no reminder is ever delivered twice.
C10_ReminderDeliveredOnce ==
    \A tid \in TaskIds :
        (/\ scheduler
         /\ scheduled_tasks[tid].task_type = "reminder"
         /\ scheduled_tasks[tid].created_at >= startedAt
         /\ ~(Fired(tid) /\ fireLog[tid] = "skipped"))
        => /\ Len(Calls(tid)) <= 1
           /\ (now > scheduled_tasks[tid].schedule_time /\ tid \notin DOMAIN instances)
                 => /\ Calls(tid) = <<[channel |-> scheduled_tasks[tid].channel_id,
                                       text |-> <<"Reminder", scheduled_tasks[tid].message>>]>>
                    /\ ~scheduled_tasks[tid].is_active

\* C11: for an active recurring task with no firing in progress, the number of
\* chat_postMessage calls made for it equals the number of its cron occurrences
\* that came due while it was scheduled (none skipped, none duplicated).
C11_InvocationsEqualOccurrences ==
    \A tid \in TaskIds :
        (/\ scheduled_tasks[tid].is_recurring
         /\ scheduled_tasks[tid].is_active
         /\ tid \notin DOMAIN instances)
        => Len(Calls(tid)) = Occurrences(tid)

\* C12: a firing that starts when its task is missing from scheduled_tasks or
\* has is_active = FALSE makes no chat_postMessage call and changes no row of
\* scheduled_tasks (last_run and is_active stay as they were).
C12_SkippedFiringChangesNothing ==
    [][\A tid \in DOMAIN instances :
          (/\ instances[tid].at = "submitted"
           /\ tid \notin TaskIds \/ ~scheduled_tasks[tid].is_active
           /\ tid \notin DOMAIN instances' \/ instances'[tid] # instances[tid])
          => /\ delivered' = delivered
             /\ scheduled_tasks' = scheduled_tasks]_vars

\* a reminder deactivated before its job came due was fired and skipped: no
\* call was made for it and its last_run is still unset
C12_Witness ==
    \E tid \in TaskIds :
        /\ Fired(tid) /\ fireLog[tid] = "skipped"
        /\ ~scheduled_tasks[tid].is_recurring
        /\ ~scheduled_tasks[tid].is_active
        /\ scheduled_tasks[tid].last_run = NoTime
        /\ Calls(tid) = <<>>
        /\ slack_client

\* C13: the executor never runs two instances of the job of one task: while a
\* firing of a task is in progress no second firing of it is started.
C13_OneFiringAtATime ==
    \A tid \in DOMAIN instances : instances[tid].running <= 1

\* the next occurrence of a cron job came due and was processed while the
\* firing of the occurrence before it was still awaiting chat_postMessage
C13_Witness ==
    \E tid \in DOMAIN instances \cap DOMAIN jobs :
        /\ instances[tid].at = "awaiting"
        /\ instances[tid].running = 1
        /\ jobs[tid].trigger = "cron"
        /\ jobs[tid].next_run_time > instances[tid].run_time + CronPeriod

\* exactly one of schedule_time and cron_expression is set: schedule_time for
\* a one-time task, cron_expression for a recurring one
ScheduleInvariant(task) ==
    IF task.is_recurring
    THEN task.cron_expression # NoCron /\ task.schedule_time = NoTime
    ELSE task.schedule_time # NoTime /\ task.cron_expression = NoCron

\* C14: every row of scheduled_tasks has exactly one of schedule_time and
\* cron_expression set, matching is_recurring, and a set_reminder call whose
\* `when` gives no schedule time (neither would be set) is answered with the
\* could-not-parse message and stores no row and adds no job.
C14_ScheduleInvariant ==
    [][/\ \A tid \in DOMAIN scheduled_tasks' : ScheduleInvariant(scheduled_tasks'[tid])
       /\ (ret'.op = "set_reminder" /\ ret' # ret /\ ParseWhen(ret'.args[1]) = NoTime)
            => /\ ret'.result = <<"could not parse">>
               /\ scheduled_tasks' = scheduled_tasks
               /\ jobs' = jobs]_vars

\* a reminder is stored with its schedule_time, and the call after it, with a
\* `when` that cannot be parsed, was rejected
C14_Witness ==
    /\ ret.op = "set_reminder"
    /\ ret.args = <<(<<"in", "2", "hours">>)>>
    /\ ret.result = <<"could not parse">>
    /\ \E tid \in TaskIds :
          /\ scheduled_tasks[tid].task_type = "reminder"
          /\ scheduled_tasks[tid].schedule_time = scheduled_tasks[tid].created_at + ReminderDelay

\* C15: with calls of get_or_create_session that carry one identity triple on
\* a store with no session, in any order of their steps, at most one active
\* session has that triple and all calls that have returned gave the same
\* session id, none of them raising.
C15_OneSessionForConcurrentFirstContact ==
    /\ \A i, j \in DOMAIN conversation_sessions :
          (/\ conversation_sessions[i].is_active
           /\ conversation_sessions[j].is_active
           /\ conversation_sessions[i].user_id = conversation_sessions[j].user_id
           /\ conversation_sessions[i].channel_id = conversation_sessions[j].channel_id
           /\ conversation_sessions[i].thread_ts = conversation_sessions[j].thread_ts)
          => i = j
    /\ \A a, b \in DOMAIN calls :
          (calls[a].at = "returned" /\ calls[b].at = "returned")
          => /\ calls[a].raised = "none"
             /\ calls[a].result = calls[b].result

\* three calls with one triple have returned, the last one at a later clock
\* reading than the one that created the session
C15_Witness ==
    /\ Cardinality({c \in DOMAIN calls : calls[c].at = "returned"}) = 3
    /\ Len(conversation_sessions) = 1
    /\ conversation_sessions[1].updated_at > conversation_sessions[1].created_at

\* C16: get_or_create_session never fails because the id it generates is
\* already the id of a row: every creation yields an id that is new to the
\* store, also when the clock reads the same as at an earlier creation for the
\* same user.
C16_CreationNeverCollides ==
    ret.op = "resolve" => ret.raised = "none"

\* C18: clear_session with an id that is the session_id of no row raises
\* NotFoundError to its caller.
C18_ClearUnknownRaises ==
    (ret.op = "clear" /\ ret.args[1] \notin SessionIds) => ret.raised = "NotFoundError"

\* C19: the session_id of every stored message is the session_id of exactly
\* one row of conversation_sessions (add_message with any other id stores
\* nothing).
C19_MessagesBelongToSessions ==
    \A m \in DOMAIN messages :
        Cardinality({i \in DOMAIN conversation_sessions :
                        conversation_sessions[i].session_id = messages[m].session_id}) = 1

\* a step of clear_session that wrote to conversation_sessions
ClearStep == ret'.op = "clear" /\ conversation_sessions' # conversation_sessions

\* what a clear step leaves alone: no row is removed, every other session is
\* unchanged, no message is touched, and the messages of every session, the
\* cleared one too, are still what get_session_history reads
ClearKeeps ==
    /\ Len(conversation_sessions') = Len(conversation_sessions)
    /\ \A i \in DOMAIN conversation_sessions :
          conversation_sessions[i].session_id # ret'.args[1]
              => conversation_sessions'[i] = conversation_sessions[i]
    /\ messages' = messages
    /\ \A sid \in SessionIds, limit \in 0..MaxLimit :
          QueryHistory(sid, limit)' = QueryHistory(sid, limit)

C20_NoSessionAcrossDelivery ==
    \A tid \in DOMAIN instances :
        instances[tid].at = "awaiting" => instances[tid].db = "closed"

----------------------------------------------------------------------------
(* Startup, rehydration and the request path: C21 .. C30 *)

\* C21: while the firing of task A is suspended in chat_postMessage (the call
\* has not returned), every other task B goes on: a due job of B is handed to
\* the executor, a submitted firing of B starts, and a firing of B that awaits
\* its own delivery can end and be recorded. None of them waits for A.
C21_SlowDeliveryDoesNotDelayOthers ==
    \A A \in DOMAIN instances :
        instances[A].at = "awaiting" =>
            \A B \in (DOMAIN jobs \cup DOMAIN instances) \ {A} :
                /\ (scheduler /\ B \in DOMAIN jobs /\ jobs[B].next_run_time <= now)
                       => ENABLED ProcessJob(B)
                /\ (B \in DOMAIN instances /\ instances[B].at = "submitted")
                       => ENABLED ExecBegin(B)
                /\ (B \in DOMAIN instances /\ instances[B].at = "awaiting")
                       => ENABLED ExecEnd(B)

\* the delivery of A has been hanging since an earlier time, and B, which
\* came due after A's firing began, was delivered and recorded meanwhile
C21_Witness ==
    \E A \in DOMAIN instances, B \in TaskIds :
        /\ A # B
        /\ instances[A].at = "awaiting"
        /\ instances[A].run_time < now
        /\ Fired(B) /\ fireLog[B] = "delivered"
        /\ scheduled_tasks[B].schedule_time > instances[A].run_time
        /\ scheduled_tasks[B].last_run = now
        /\ ~scheduled_tasks[B].is_active

\* C22: initialize_database has run before initialize_scheduler loads the
\* tasks, and the service is ready only when that load has run and has got
\* through all active tasks.
C22_ReadyOnlyAfterRehydration ==
    /\ rehydration # "none" => pc \in {"sched", "ready"}
    /\ pc = "ready" => rehydration = "complete"

\* C23: when initialize_scheduler returns, the job table has a job under the
\* task id of every active row of scheduled_tasks, built from that row, and no
\* other job.
C23_JobTableMatchesActiveTasks ==
    [][(pc = "db" /\ pc' = "sched" /\ rehydration' # "none")
          => /\ DOMAIN jobs' = ActiveTasks
             /\ \A tid \in DOMAIN jobs' : jobs'[tid] = Job(scheduled_tasks[tid])]_vars

\* C27: when the query of initialize_scheduler returned and an active row
\* cannot be scheduled, every other active row with a valid schedule has its
\* job when initialize_scheduler returns.
C27_UnschedulableTaskSkippedAlone ==
    [][(pc = "db" /\ pc' = "sched" /\ rehydration' \in {"complete", "aborted"})
          => \A tid \in ActiveTasks :
                (/\ FirstRunTime(scheduled_tasks[tid]) # NoTime
                 /\ ~TriggerRaises(scheduled_tasks[tid]))
                => tid \in DOMAIN jobs']_vars

C25_NoExecutionWithoutDelivery ==
    [][\A tid \in TaskIds :
          /\ (scheduled_tasks'[tid].last_run # scheduled_tasks[tid].last_run)
                => /\ tid \in DOMAIN instances
                   /\ instances[tid].at = "awaiting"
          /\ (/\ scheduled_tasks'[tid] # scheduled_tasks[tid]
              /\ ~scheduled_tasks'[tid].is_active
              /\ scheduled_tasks'[tid].last_run # NoTime)
                => Len(Calls(tid)') >= 1]_vars

\* C26: while the scheduler runs on a completed task load, every one-time task
\* that is active in scheduled_tasks has a job in the job table or a firing in
\* progress.
C26_ActiveTaskHasJob ==
    (scheduler /\ rehydration = "complete") =>
        \A tid \in TaskIds :
            (~scheduled_tasks[tid].is_recurring /\ scheduled_tasks[tid].is_active)
            => tid \in DOMAIN jobs \/ tid \in DOMAIN instances

\* C30: a set_reminder call that reports success has added one row to
\* scheduled_tasks, an active one-time task, and a job under the id of that
\* row; a call that reports anything else (the time was not parsed, the store
\* write failed) has added neither a row nor a job.
C30_ReminderStoredAndScheduled ==
    [][(ret'.op = "set_reminder" /\ ret' # ret) =>
          IF ret'.result[1] = "ok"
          THEN \E tid \in DOMAIN scheduled_tasks' \ TaskIds :
                  /\ DOMAIN scheduled_tasks' = TaskIds \cup {tid}
                  /\ scheduled_tasks'[tid].is_active
                  /\ ~scheduled_tasks'[tid].is_recurring
                  /\ tid \in DOMAIN jobs'
                  /\ tid \notin DOMAIN jobs
          ELSE scheduled_tasks' = scheduled_tasks /\ jobs' = jobs]_vars

\* C28: every message is appended under a session that is active at the time
\* of the append, however the steps of the handlers of messages and of resets
\* of the same identity interleave.
C28_AppendOnlyToActiveSession ==
    [][Len(messages') = Len(messages) + 1 =>
          \E i \in DOMAIN conversation_sessions' :
             /\ conversation_sessions'[i].session_id = messages'[Len(messages')].session_id
             /\ conversation_sessions'[i].is_active]_vars

\* C29: the history that process_user_message reads for the first message of
\* an identity after a reset of that identity has completed holds no message
\* that was stored before the reset ended, whatever other sessions the user
\* has.
C29_HistoryEmptyAfterReset ==
    [][\A h \in DOMAIN handlers :
          (/\ handlers[h].at = "reacting"
           /\ handlers[h].after_reset
           /\ h \in DOMAIN handlers'
           /\ handlers'[h].at = "agent")
          => \A i \in DOMAIN ret'.rows : ret'.rows[i].id > handlers[h].mark]_vars

====
